---- MODULE Spec2Model ----
(***************************************************************************)
(* Model of qcm-parser: parseQCM (Markdown -> QCM), parseQCMFromArray      *)
(* (structured items -> QCM), finalizeQuestions and jsonToMd (QCM ->       *)
(* Markdown).  Text is a sequence of one-character strings, so that        *)
(* trimming, splitting, the regular expressions and number formatting are  *)
(* computed, character by character, as the code computes them.            *)
(***************************************************************************)
EXTENDS Integers, Sequences, FiniteSets, TLC

\* ------------------------------------------------------------------ bounds
MaxLines == 3
MaxItems == 2
MaxQuestions == 2

\* ------------------------------------------------------- characters, text
\* The characters String.prototype.trim and the regex class \s remove.
WS == {" ", "\t", "\n", "\r"}

\* The characters the regex "." does not match.
LineTerminators == {"\n", "\r"}

Digits == {"0", "1", "2", "3", "4", "5", "6", "7", "8", "9"}

DigitVal(c) ==
  CASE c = "0" -> 0 [] c = "1" -> 1 [] c = "2" -> 2 [] c = "3" -> 3
    [] c = "4" -> 4 [] c = "5" -> 5 [] c = "6" -> 6 [] c = "7" -> 7
    [] c = "8" -> 8 [] c = "9" -> 9

DigitChar(d) ==
  CASE d = 0 -> "0" [] d = 1 -> "1" [] d = 2 -> "2" [] d = 3 -> "3"
    [] d = 4 -> "4" [] d = 5 -> "5" [] d = 6 -> "6" [] d = 7 -> "7"
    [] d = 8 -> "8" [] d = 9 -> "9"

\* Case folding of the "i" flag and of toLowerCase, on the letters in use.
Lower(c) ==
  CASE c = "T" -> "t" [] c = "I" -> "i" [] c = "L" -> "l" [] c = "E" -> "e"
    [] c = "Q" -> "q" [] c = "C" -> "c" [] c = "M" -> "m" [] c = "X" -> "x"
    [] OTHER -> c

LowerAll(s) == [i \in 1..Len(s) |-> Lower(s[i])]

\* Number of leading whitespace characters of s from position `from` on.
RECURSIVE SkipWs(_, _)
SkipWs(s, from) ==
  IF from <= Len(s) /\ s[from] \in WS THEN SkipWs(s, from + 1) ELSE from

\* String.prototype.trimEnd
RECURSIVE TrimEnd(_)
TrimEnd(s) ==
  IF Len(s) > 0 /\ s[Len(s)] \in WS THEN TrimEnd(SubSeq(s, 1, Len(s) - 1)) ELSE s

\* String.prototype.trim
Trim(s) == TrimEnd(SubSeq(s, SkipWs(s, 1), Len(s)))

StartsWith(s, p) == Len(s) >= Len(p) /\ SubSeq(s, 1, Len(p)) = p

\* String.prototype.split(/\r?\n/)
RECURSIVE Split(_)
Split(s) ==
  LET nl == {i \in 1..Len(s) : s[i] = "\n"} IN
  IF nl = {} THEN <<s>>
  ELSE LET i == CHOOSE k \in nl : \A j \in nl : k <= j
           e == IF i > 1 /\ s[i - 1] = "\r" THEN i - 2 ELSE i - 1
       IN <<SubSeq(s, 1, e)>> \o Split(SubSeq(s, i + 1, Len(s)))

\* Array.prototype.join('\n')
RECURSIVE Join(_)
Join(ls) ==
  IF Len(ls) = 0 THEN <<>>
  ELSE IF Len(ls) = 1 THEN ls[1]
  ELSE ls[1] \o <<"\n">> \o Join(Tail(ls))

\* Number -> string conversion of a template literal, for a non-negative
\* integer written in plain decimal digits.
RECURSIVE IntToStr(_)
IntToStr(n) ==
  IF n < 10 THEN <<DigitChar(n)>>
  ELSE IntToStr(n \div 10) \o <<DigitChar(n % 10)>>

\* parseInt(digits, 10) on a run of decimal digits.
RECURSIVE ParseInt(_)
ParseInt(ds) ==
  IF Len(ds) = 0 THEN 0
  ELSE 10 * ParseInt(SubSeq(ds, 1, Len(ds) - 1)) + DigitVal(ds[Len(ds)])

\* ------------------------------------------------------ optional values
\* An optional value (undefined | v, or null | v) is <<>> or <<v>>.
None == <<>>
Some(v) == <<v>>

\* JavaScript truthiness of an optional string: undefined and "" are falsy.
Truthy(t) == t # None /\ t[1] # <<>>

\* ------------------------------------------------------ regular expressions
\* The capture of the tail \s*(.+)$ matched from position `from` of s:
\* None when it does not match.  \s* is greedy and gives characters back
\* only when nothing is left for (.+).
DotPlusCapture(s, from) ==
  LET m == SkipWs(s, from) IN
  IF m <= Len(s)
    THEN IF \E i \in m..Len(s) : s[i] \in LineTerminators
           THEN None ELSE Some(SubSeq(s, m, Len(s)))
    ELSE IF Len(s) >= from /\ s[Len(s)] \notin LineTerminators
           THEN Some(<<s[Len(s)]>>) ELSE None

\* Length of the match of /^#\s*(?:Title|QCM):/i on s, 0 when none.
TitlePrefixLen(s) ==
  IF Len(s) = 0 \/ s[1] # "#" THEN 0
  ELSE LET k == SkipWs(s, 2)
           rest == LowerAll(SubSeq(s, k, Len(s)))
       IN IF StartsWith(rest, <<"t", "i", "t", "l", "e", ":">>) THEN k + 5
          ELSE IF StartsWith(rest, <<"q", "c", "m", ":">>) THEN k + 3
          ELSE 0

\* The capture of /^##\s*Q:\s*(.+)$/ on s, None when it does not match.
QuestionMatch(s) ==
  IF ~StartsWith(s, <<"#", "#">>) THEN None
  ELSE LET k == SkipWs(s, 3) IN
       IF k + 1 <= Len(s) /\ s[k] = "Q" /\ s[k + 1] = ":"
         THEN DotPlusCapture(s, k + 2) ELSE None

\* The match of /^- \[([ xX])\]\s*(.+)$/ on s: None, or the two captures.
AnswerMatch(s) ==
  IF Len(s) >= 5 /\ SubSeq(s, 1, 3) = <<"-", " ", "[">>
     /\ s[4] \in {" ", "x", "X"} /\ s[5] = "]"
    THEN LET c == DotPlusCapture(s, 6) IN
         IF c = None THEN None ELSE Some([mark |-> s[4], text |-> c[1]])
    ELSE None

\* First position of the maximal run of digits of s that ends at `last`.
RECURSIVE DigitRunStart(_, _)
DigitRunStart(s, last) ==
  IF last >= 1 /\ s[last] \in Digits THEN DigitRunStart(s, last - 1) ELSE last + 1

\* The match of /\[(\d+)\]\s*$/ in s: None, or where it starts and its digits.
ScoreMatch(s) ==
  LET e == Len(TrimEnd(s)) IN
  IF e >= 3 /\ s[e] = "]"
    THEN LET d == DigitRunStart(s, e - 1) IN
         IF d <= e - 1 /\ d >= 2 /\ s[d - 1] = "["
           THEN Some([start |-> d - 1, digits |-> SubSeq(s, d, e - 1)])
           ELSE None
    ELSE None

\* The title and score of a header text or item title (already trimmed):
\* a trailing "[n]" is the score and is stripped, otherwise the score is 1.
ExtractScore(text) ==
  LET m == ScoreMatch(text) IN
  IF m = None THEN [title |-> text, score |-> 1]
  ELSE [title |-> Trim(SubSeq(text, 1, m[1].start - 1)),
        score |-> ParseInt(m[1].digits)]

\* ------------------------------------------------------------- errors
\* A thrown Error, by what its message carries.
Err(kind, line, question, answer, count, title) ==
  [kind |-> kind, line |-> line, question |-> question, answer |-> answer,
   count |-> count, title |-> title]

NoError == Err("none", 0, 0, 0, 0, <<>>)

\* ---------------------------------------------------- finalizeQuestions
CorrectCount(q) == Cardinality({i \in DOMAIN q.answers : q.answers[i].correct})

\* The derived flag of a question with `correctCount` correct answers.
MultipleAnswersTrusted(q, correctCount) == q.multipleAnswers
MultipleAnswersOf(q, correctCount) == correctCount > 1

\* The callback of questions.map: the error it throws, or the new question.
FinalizeQuestionNoRequire(q, pos, options) ==
  LET correctCount == CorrectCount(q) IN
  IF options.enforceSingle /\ correctCount > 1
    THEN [error |-> Err("enforceSingle", 0, pos, 0, correctCount, q.title),
          question |-> q]
    ELSE [error |-> NoError,
          question |-> [q EXCEPT !.multipleAnswers = MultipleAnswersOf(q, correctCount)]]
FinalizeQuestion(q, pos, options) ==
  LET correctCount == CorrectCount(q) IN
  IF options.requireAtLeastOneCorrect /\ correctCount = 0
    THEN [error |-> Err("requireAtLeastOneCorrect", 0, pos, 0, 0, q.title),
          question |-> q]
  ELSE IF options.enforceSingle /\ correctCount > 1
    THEN [error |-> Err("enforceSingle", 0, pos, 0, correctCount, q.title),
          question |-> q]
  ELSE [error |-> NoError,
        question |-> [q EXCEPT !.multipleAnswers = MultipleAnswersOf(q, correctCount)]]

\* questions.map(...) from position i on, acc being the questions mapped so
\* far: the first error thrown ends it.
RECURSIVE FinalizeFrom(_, _, _, _)
FinalizeFrom(qs, options, i, acc) ==
  IF i > Len(qs) THEN [error |-> NoError, questions |-> acc]
  ELSE LET r == FinalizeQuestion(qs[i], i, options) IN
       IF r.error # NoError THEN [error |-> r.error, questions |-> <<>>]
       ELSE FinalizeFrom(qs, options, i + 1, Append(acc, r.question))

finalizeQuestions(qs, options) == FinalizeFrom(qs, options, 1, <<>>)

\* --------------------------------------------------------------- jsonToMd
TitleLinePrefix == <<"#", " ", "T", "i", "t", "l", "e", ":", " ">>
HeaderPrefix == <<"#", "#", " ", "Q", ":", " ">>

\* The "# Title:" line and the blank line after it, when qcm.title is truthy.
MdTitleLines(qcm) ==
  IF Truthy(qcm.title)
    THEN <<TitleLinePrefix \o Trim(qcm.title[1]), <<>>>>
    ELSE <<>>

\* `## Q: <title> [<score>]`
MdHeaderNoScore(question) == HeaderPrefix \o Trim(question.title)
MdHeader(question) ==
  HeaderPrefix \o Trim(question.title) \o <<" ", "[">> \o IntToStr(question.score) \o <<"]">>

\* `- [x] <text>` or `- [ ] <text>`
MdAnswer(ans) ==
  <<"-", " ", "[", IF ans.correct THEN "x" ELSE " ", "]", " ">> \o Trim(ans.text)

RECURSIVE MdAnswers(_)
MdAnswers(answers) ==
  IF Len(answers) = 0 THEN <<>>
  ELSE <<MdAnswer(Head(answers))>> \o MdAnswers(Tail(answers))

\* The lines pushed for the questions: header, answers, a blank line.
RECURSIVE MdQuestions(_)
MdQuestions(questions) ==
  IF Len(questions) = 0 THEN <<>>
  ELSE <<MdHeader(Head(questions))>> \o MdAnswers(Head(questions).answers)
       \o <<<<>>>> \o MdQuestions(Tail(questions))

jsonToMd(qcm) ==
  TrimEnd(Join(MdTitleLines(qcm) \o MdQuestions(qcm.questions))) \o <<"\n">>

\* ----------------------------------------------------------------- inputs
Booleans == {TRUE, FALSE}

\* ParseOptions; both flags default to false.
DefaultOptions == [enforceSingle |-> FALSE, requireAtLeastOneCorrect |-> FALSE]
OptionSets == [enforceSingle : Booleans, requireAtLeastOneCorrect : Booleans]

Ans(text, correct) == [text |-> text, correct |-> correct]
Qn(title, score, answers, multipleAnswers) ==
  [title |-> title, score |-> score, answers |-> answers,
   multipleAnswers |-> multipleAnswers]

\* Lines a Markdown input is made of.
LineCatalog ==
  { <<"#", " ", "T", "i", "t", "l", "e", ":", " ", "A">>,
    <<"#", "q", "c", "m", ":">>,
    <<"#", "#", " ", "Q", ":", " ", "q">>,
    <<"#", "#", "Q", ":", " ", "r", " ", "[", "1", "2", "]">>,
    <<"#", "#", " ", "Q", ":", " ", "[", "0", "]">>,
    <<"-", " ", "[", "X", "]", " ", "a">>,
    <<" ", "-", " ", "[", " ", "]", " ", "b", "\r">>,
    <<"-", " ", "[", "x", "]">>,
    <<>>,
    <<"<", "!", "-", "-", " ", "c">>,
    <<"*", " ", "b">> }

MarkdownInputs ==
  {Join(doc) : doc \in UNION {[1..n -> LineCatalog] : n \in 0..MaxLines}}

\* Items of a structured input.  A title or a text that is not a string,
\* and answers that are not an array, are None; `correct` is one of
\* true, false, null and undefined, by name.
RawAns(text, correct) == [text |-> text, correct |-> correct]
RawQ(title, answers, multipleAnswers) ==
  [title |-> title, answers |-> answers, multipleAnswers |-> multipleAnswers]

ItemCatalog ==
  { RawQ(Some(<<"q">>), Some(<<RawAns(Some(<<"a">>), "true")>>), None),
    RawQ(Some(<<"r", " ", "[", "2", "]">>),
         Some(<<RawAns(Some(<<"a">>), "true"), RawAns(Some(<<" ", "b">>), "true")>>),
         Some(FALSE)),
    RawQ(Some(<<"q">>), Some(<<>>), None),
    RawQ(Some(<<" ", "[", "3", "]", " ">>), Some(<<RawAns(Some(<<" ">>), "null")>>), None),
    RawQ(Some(<<"q", " ", "[", "0", "]">>), Some(<<RawAns(Some(<<"a">>), "false")>>),
         Some(TRUE)),
    RawQ(None, Some(<<>>), None),
    RawQ(Some(<<"q">>), None, None),
    RawQ(Some(<<"q">>),
         Some(<<RawAns(Some(<<"a">>), "true"), RawAns(Some(<<"b">>), "undefined")>>), None),
    RawQ(Some(<<"q">>), Some(<<RawAns(None, "true")>>), None) }

ArrayInputs == UNION {[1..n -> ItemCatalog] : n \in 0..MaxItems}

\* Questionnaires handed to jsonToMd.
QuestionCatalog ==
  { Qn(<<"q">>, 1, <<Ans(<<"a">>, TRUE)>>, FALSE),
    Qn(<<"r", " ", "[", "2", "]">>, 12,
       <<Ans(<<"a">>, TRUE), Ans(<<"b">>, TRUE)>>, TRUE),
    Qn(<<" ", "q", " ">>, 2, <<Ans(<<" ", "b", " ">>, FALSE)>>, FALSE),
    Qn(<<"[", "3", "]">>, 3, <<Ans(<<"a">>, FALSE), Ans(<<"x">>, TRUE)>>, FALSE),
    Qn(<<"q", "\n", "r">>, 1, <<Ans(<<"a">>, TRUE)>>, FALSE),
    Qn(<<"q">>, 1, <<Ans(<<"a">>, TRUE), Ans(<<"b">>, TRUE)>>, FALSE) }

TitleCatalog ==
  { None, Some(<<>>), Some(<<" ">>), Some(<<"T">>), Some(<<" ", "T", " ">>) }

QcmInputs ==
  [title : TitleCatalog,
   questions : UNION {[1..n -> QuestionCatalog] : n \in 0..MaxQuestions}]

\* ------------------------------------------------------------------ state
VARIABLES
  entry,            \* the call: "parseQCM", "parseQCMFromArray" or "roundTrip"
  options,          \* the call's ParseOptions
  qcmIn,            \* jsonToMd's argument (roundTrip)
  rawArr,           \* parseQCMFromArray's argument
  markdown,         \* parseQCM's argument
  lines,            \* markdown.split(/\r?\n/)
  idx,              \* 1-based number of the line or item the forEach is at
  title,            \* qcm.title: None while undefined
  questions,        \* qcm.questions
  currentQuestion,  \* None while null
  pc,               \* "serialize", "start", "lines", "items", "done", "failed"
  error             \* the Error thrown, NoError while none

vars == <<entry, options, qcmIn, rawArr, markdown, lines, idx, title, questions,
          currentQuestion, pc, error>>

NoQcm == [title |-> None, questions |-> <<>>]

InitParseQCM ==
  /\ entry = "parseQCM"
  /\ options \in OptionSets
  /\ markdown \in MarkdownInputs
  /\ qcmIn = NoQcm /\ rawArr = <<>>
  /\ pc = "start"

InitParseQCMFromArray ==
  /\ entry = "parseQCMFromArray"
  /\ options \in OptionSets
  /\ rawArr \in ArrayInputs
  /\ qcmIn = NoQcm /\ markdown = <<>>
  /\ pc = "items"

InitRoundTrip ==
  /\ entry = "roundTrip"
  /\ options = DefaultOptions
  /\ qcmIn \in QcmInputs
  /\ rawArr = <<>> /\ markdown = <<>>
  /\ pc = "serialize"

Init ==
  /\ InitParseQCM \/ InitParseQCMFromArray \/ InitRoundTrip
  /\ lines = <<>> /\ idx = 1
  /\ title = None /\ questions = <<>> /\ currentQuestion = None
  /\ error = NoError

\* --------------------------------------------------------------- actions
\* jsonToMd(q), whose result is then handed to parseQCM.
Serialize ==
  /\ pc = "serialize"
  /\ markdown' = jsonToMd(qcmIn)
  /\ pc' = "start"
  /\ UNCHANGED <<entry, options, qcmIn, rawArr, lines, idx, title, questions,
                 currentQuestion, error>>

\* parseQCM up to its forEach.
ParseStart ==
  /\ pc = "start"
  /\ lines' = Split(markdown)
  /\ title' = None /\ questions' = <<>> /\ currentQuestion' = None
  /\ idx' = 1
  /\ pc' = "lines"
  /\ UNCHANGED <<entry, options, qcmIn, rawArr, markdown, error>>

InLoop == pc = "lines" /\ idx <= Len(lines)
RawLine == lines[idx]
Line == Trim(RawLine)

Throw(e) == pc' = "failed" /\ error' = e

\* The guards of the callback's branches, in the order the code tries them.
IsTitleBranch == ~Truthy(title) /\ TitlePrefixLen(Line) > 0
IsQuestionBranch == ~IsTitleBranch /\ QuestionMatch(Line) # None
IsAnswerBranch == ~IsTitleBranch /\ QuestionMatch(Line) = None /\ AnswerMatch(Line) # None
IsIgnorableBranch ==
  /\ ~IsTitleBranch /\ QuestionMatch(Line) = None /\ AnswerMatch(Line) = None
  /\ (Line = <<>> \/ StartsWith(Line, <<"<", "!", "-", "-">>))
IsUnrecognizedBranch ==
  /\ ~IsTitleBranch /\ QuestionMatch(Line) = None /\ AnswerMatch(Line) = None
  /\ ~(Line = <<>> \/ StartsWith(Line, <<"<", "!", "-", "-">>))

\* 1. Global QCM title
ParseTitle ==
  /\ InLoop /\ IsTitleBranch
  /\ title' = Some(Trim(SubSeq(Line, TitlePrefixLen(Line) + 1, Len(Line))))
  /\ idx' = idx + 1
  /\ UNCHANGED <<entry, options, qcmIn, rawArr, markdown, lines, questions,
                 currentQuestion, pc, error>>

\* 2. Question header
ParseQuestionHeaderDropsOpen ==
  /\ InLoop /\ IsQuestionBranch
  /\ currentQuestion' =
       LET ts == ExtractScore(Trim(QuestionMatch(Line)[1]))
       IN Some(Qn(ts.title, ts.score, <<>>, FALSE))
  /\ idx' = idx + 1
  /\ UNCHANGED <<entry, options, qcmIn, rawArr, markdown, lines, title, questions,
                 pc, error>>
ParseQuestionHeader ==
  /\ InLoop /\ IsQuestionBranch
  /\ questions' = questions \o currentQuestion
  /\ currentQuestion' =
       LET ts == ExtractScore(Trim(QuestionMatch(Line)[1]))
       IN Some(Qn(ts.title, ts.score, <<>>, FALSE))
  /\ idx' = idx + 1
  /\ UNCHANGED <<entry, options, qcmIn, rawArr, markdown, lines, title, pc, error>>

\* 3. Answer line, a question being open
ParseAnswer ==
  /\ InLoop /\ IsAnswerBranch /\ currentQuestion # None
  /\ currentQuestion' =
       LET m == AnswerMatch(Line)[1]
           a == Ans(Trim(m.text), Lower(m.mark) = "x")
       IN Some([currentQuestion[1] EXCEPT !.answers = Append(@, a)])
  /\ idx' = idx + 1
  /\ UNCHANGED <<entry, options, qcmIn, rawArr, markdown, lines, title, questions,
                 pc, error>>

\* 3. Answer line, no question being open
ParseOrphanAnswer ==
  /\ InLoop /\ IsAnswerBranch /\ currentQuestion = None
  /\ Throw(Err("answerWithoutQuestion", idx, 0, 0, 0, <<>>))
  /\ UNCHANGED <<entry, options, qcmIn, rawArr, markdown, lines, idx, title,
                 questions, currentQuestion>>

\* 4. Blank or comment line
ParseIgnorable ==
  /\ InLoop /\ IsIgnorableBranch
  /\ idx' = idx + 1
  /\ UNCHANGED <<entry, options, qcmIn, rawArr, markdown, lines, title, questions,
                 currentQuestion, pc, error>>

\* 5. Unrecognized syntax
ParseUnrecognized ==
  /\ InLoop /\ IsUnrecognizedBranch
  /\ Throw(Err("unrecognizedSyntax", idx, 0, 0, 0, <<>>))
  /\ UNCHANGED <<entry, options, qcmIn, rawArr, markdown, lines, idx, title,
                 questions, currentQuestion>>

\* The 1-based position of the first question without answers, 0 when none.
FirstWithoutAnswers(qs) ==
  LET empty == {i \in 1..Len(qs) : Len(qs[i].answers) = 0} IN
  IF empty = {} THEN 0 ELSE CHOOSE i \in empty : \A j \in empty : i <= j

\* parseQCM after its forEach: close the last question, ensure every
\* question has an answer, finalize, return.
ParseEnd ==
  /\ pc = "lines" /\ idx > Len(lines)
  /\ LET closed == questions \o currentQuestion
         e == FirstWithoutAnswers(closed)
         f == finalizeQuestions(closed, options)
     IN IF e # 0
          THEN /\ Throw(Err("questionWithoutAnswer", 0, e, 0, 0, closed[e].title))
               /\ questions' = closed
        ELSE IF f.error # NoError
          THEN Throw(f.error) /\ questions' = closed
        ELSE pc' = "done" /\ questions' = f.questions /\ error' = error
  /\ UNCHANGED <<entry, options, qcmIn, rawArr, markdown, lines, idx, title,
                 currentQuestion>>

\* ------------------------------------------------- parseQCMFromArray
InItems == pc = "items" /\ idx <= Len(rawArr)
Item == rawArr[idx]

ItemIsWellFormed == Item.title # None /\ Item.answers # None

\* The 1-based position of the first answer of the item that fails its
\* shape check, 0 when none.
FirstMalformedAnswer(answers) ==
  LET bad == {i \in 1..Len(answers) :
                answers[i].text = None
                \/ answers[i].correct \notin {"true", "false", "null"}}
  IN IF bad = {} THEN 0 ELSE CHOOSE i \in bad : \A j \in bad : i <= j

\* item.answers.map(...) on answers that pass the shape check.
MapAnswers(answers) ==
  [i \in 1..Len(answers) |->
     Ans(Trim(answers[i].text[1]), answers[i].correct = "true")]

\* The callback on an item that is no { title: string, answers: array }.
ArrayItemMalformed ==
  /\ InItems /\ ~ItemIsWellFormed
  /\ Throw(Err("malformedItem", 0, idx, 0, 0, <<>>))
  /\ UNCHANGED <<entry, options, qcmIn, rawArr, markdown, lines, idx, title,
                 questions, currentQuestion>>

\* The callback on an item one of whose answers fails the shape check.
ArrayAnswerMalformed ==
  /\ InItems /\ ItemIsWellFormed
  /\ FirstMalformedAnswer(Item.answers[1]) # 0
  /\ Throw(Err("malformedAnswer", 0, idx, FirstMalformedAnswer(Item.answers[1]), 0, <<>>))
  /\ UNCHANGED <<entry, options, qcmIn, rawArr, markdown, lines, idx, title,
                 questions, currentQuestion>>

\* The callback on a well-formed item: extract the score, map the answers,
\* push the question skeleton.
ArrayItem ==
  /\ InItems /\ ItemIsWellFormed
  /\ FirstMalformedAnswer(Item.answers[1]) = 0
  /\ questions' =
       LET ts == ExtractScore(Trim(Item.title[1]))
       IN Append(questions, Qn(ts.title, ts.score, MapAnswers(Item.answers[1]), FALSE))
  /\ idx' = idx + 1
  /\ UNCHANGED <<entry, options, qcmIn, rawArr, markdown, lines, title,
                 currentQuestion, pc, error>>

\* parseQCMFromArray after its forEach: finalize, return.
ArrayEnd ==
  /\ pc = "items" /\ idx > Len(rawArr)
  /\ LET f == finalizeQuestions(questions, options)
     IN IF f.error # NoError
          THEN Throw(f.error) /\ questions' = questions
          ELSE pc' = "done" /\ questions' = f.questions /\ error' = error
  /\ UNCHANGED <<entry, options, qcmIn, rawArr, markdown, lines, idx, title,
                 currentQuestion>>

Next ==
  \/ Serialize
  \/ ParseStart
  \/ ParseTitle
  \/ ParseQuestionHeader
  \/ ParseAnswer
  \/ ParseOrphanAnswer
  \/ ParseIgnorable
  \/ ParseUnrecognized
  \/ ParseEnd
  \/ ArrayItemMalformed
  \/ ArrayAnswerMalformed
  \/ ArrayItem
  \/ ArrayEnd

Spec == Init /\ [][Next]_vars

\* The value a call has returned.
Returned == pc = "done"
qcm == [title |-> title, questions |-> questions]

\* ------------------------------------------------- vocabulary of the claims
Terminal == pc \in {"done", "failed"}

\* parseQCM has run on `lines` and has returned or thrown.
ParsedText == entry \in {"parseQCM", "roundTrip"} /\ Terminal

\* The productions of the line grammar, by the shape of a raw line alone.
TitleShaped(l) == TitlePrefixLen(Trim(l)) > 0
QuestionShaped(l) == QuestionMatch(Trim(l)) # None
AnswerShaped(l) == AnswerMatch(Trim(l)) # None
IgnorableShaped(l) == Trim(l) = <<>> \/ StartsWith(Trim(l), <<"<", "!", "-", "-">>)

TitleLineNumbers == {i \in 1..Len(lines) : TitleShaped(lines[i])}
HeaderLineNumbers == {i \in 1..Len(lines) : QuestionShaped(lines[i])}

Min(S) == CHOOSE i \in S : \A j \in S : i <= j

\* The elements of a finite set of numbers, in increasing order.
Sorted(S) ==
  [k \in 1..Cardinality(S) |-> CHOOSE i \in S : Cardinality({j \in S : j < i}) = k - 1]

NumCorrect(answers) == Cardinality({i \in 1..Len(answers) : answers[i].correct = TRUE})

\* A line no production accepts where it stands: it has none of the four
\* shapes, or it is a title line after the first one, or an answer line
\* with no question header before it.
InvalidLine(i) ==
  \/ /\ ~TitleShaped(lines[i]) /\ ~QuestionShaped(lines[i])
     /\ ~AnswerShaped(lines[i]) /\ ~IgnorableShaped(lines[i])
  \/ TitleShaped(lines[i]) /\ \E j \in 1..(i - 1) : TitleShaped(lines[j])
  \/ AnswerShaped(lines[i]) /\ ~\E j \in 1..(i - 1) : QuestionShaped(lines[j])

InvalidLineNumbers == {i \in 1..Len(lines) : InvalidLine(i)}

\* ---------------------------------------------------------------- C1
\* The data-model invariants of a Questionnaire.
SatisfiesInvariants(q) ==
  \A i \in 1..Len(q.questions) :
    /\ Trim(q.questions[i].title) # <<>>
    /\ q.questions[i].score >= 1
    /\ Len(q.questions[i].answers) >= 1
    /\ \A j \in 1..Len(q.questions[i].answers) :
         Trim(q.questions[i].answers[j].text) # <<>>

HasLineBreak(text) == \E i \in 1..Len(text) : text[i] \in LineTerminators

\* No title and no answer text has a line terminator inside.
SingleLineTexts(q) ==
  /\ q.title # None => ~HasLineBreak(Trim(q.title[1]))
  /\ \A i \in 1..Len(q.questions) :
       /\ ~HasLineBreak(Trim(q.questions[i].title))
       /\ \A j \in 1..Len(q.questions[i].answers) :
            ~HasLineBreak(Trim(q.questions[i].answers[j].text))

\* q with every text trimmed, an empty title made absent, and
\* multipleAnswers derived.
Trimmed(q) ==
  [title |-> IF q.title = None \/ q.title[1] = <<>> THEN None
             ELSE Some(Trim(q.title[1])),
   questions |->
     [i \in 1..Len(q.questions) |->
        [title |-> Trim(q.questions[i].title),
         score |-> q.questions[i].score,
         multipleAnswers |-> NumCorrect(q.questions[i].answers) > 1,
         answers |->
           [j \in 1..Len(q.questions[i].answers) |->
              [text |-> Trim(q.questions[i].answers[j].text),
               correct |-> q.questions[i].answers[j].correct]]]]]

\* The same title, the same questions in the same order with the same
\* title and score, the same answers in the same order with the same text
\* and correctness, multipleAnswers derived.
SameQuestionnaire(r, q) ==
  /\ r.title = q.title
  /\ Len(r.questions) = Len(q.questions)
  /\ \A i \in 1..Len(q.questions) :
       i <= Len(r.questions) =>
         /\ r.questions[i].title = q.questions[i].title
         /\ r.questions[i].score = q.questions[i].score
         /\ r.questions[i].multipleAnswers = (NumCorrect(q.questions[i].answers) > 1)
         /\ Len(r.questions[i].answers) = Len(q.questions[i].answers)
         /\ \A j \in 1..Len(q.questions[i].answers) :
              j <= Len(r.questions[i].answers) =>
                /\ r.questions[i].answers[j].text = q.questions[i].answers[j].text
                /\ r.questions[i].answers[j].correct = q.questions[i].answers[j].correct

\* C1 as stated: for every q that satisfies the data-model invariants,
\* parseQCM(jsonToMd(q)) with default options succeeds and returns the same
\* questionnaire, multipleAnswers being derived.
C1_RoundTripExact ==
  (entry = "roundTrip" /\ Terminal /\ SatisfiesInvariants(qcmIn))
    => (pc = "done" /\ SameQuestionnaire(qcm, qcmIn))

\* C1 as amended: for every q that satisfies the data-model invariants and
\* has no line terminator inside a title or an answer text,
\* parseQCM(jsonToMd(q)) with default options succeeds and returns q with
\* every title and answer text trimmed (the questionnaire title absent when
\* q's is absent or empty), the questions and answers in the same order
\* with the same scores and correctness, multipleAnswers being derived.
C1_RoundTripTrimmed ==
  (entry = "roundTrip" /\ Terminal /\ SatisfiesInvariants(qcmIn)
     /\ SingleLineTexts(qcmIn))
    => (pc = "done" /\ qcm = Trimmed(qcmIn))

\* A round trip of two questions has returned, one text of the input not
\* being trimmed.
C1_Witness ==
  /\ entry = "roundTrip" /\ pc = "done"
  /\ SatisfiesInvariants(qcmIn) /\ SingleLineTexts(qcmIn)
  /\ Len(qcmIn.questions) = 2
  /\ qcmIn.title # None /\ qcmIn.title[1] # Trim(qcmIn.title[1])
  /\ \E i \in 1..2 : qcmIn.questions[i].score > 9

\* ---------------------------------------------------------------- C2
\* C2: when the text has an invalid line, parseQCM fails with the 1-based
\* number of the earliest invalid line, whatever follows it and whatever
\* the questions are; no Questionnaire is returned.
C2_FailFast ==
  (ParsedText /\ InvalidLineNumbers # {})
    => /\ pc = "failed"
       /\ error.kind \in {"unrecognizedSyntax", "answerWithoutQuestion"}
       /\ error.line = Min(InvalidLineNumbers)

\* ---------------------------------------------------------------- C3
\* C3: every Questionnaire returned by parseQCM or parseQCMFromArray has at
\* least one answer in every question.
C3_EveryQuestionHasAnAnswer ==
  Returned => \A i \in 1..Len(questions) : Len(questions[i].answers) >= 1

\* ---------------------------------------------------------------- C4
\* C4: in every Questionnaire returned by parseQCM or parseQCMFromArray,
\* under any options, each question's multipleAnswers is (number of its
\* correct answers > 1); for a structured input that is the number of the
\* item's answers whose `correct` is true, whatever multipleAnswers the
\* item carries.
C4_MultipleAnswersDerived ==
  Returned =>
    /\ \A i \in 1..Len(questions) :
         questions[i].multipleAnswers = (NumCorrect(questions[i].answers) > 1)
    /\ entry = "parseQCMFromArray" =>
         /\ Len(questions) = Len(rawArr)
         /\ \A i \in 1..Len(rawArr) :
              questions[i].multipleAnswers =
                (Cardinality({j \in 1..Len(rawArr[i].answers[1]) :
                                rawArr[i].answers[1][j].correct = "true"}) > 1)

\* parseQCMFromArray has returned a question whose multipleAnswers differs
\* from the one its item carried, and one whose multipleAnswers is true.
C4_Witness ==
  /\ entry = "parseQCMFromArray" /\ Returned
  /\ \E i \in 1..Len(rawArr) :
       /\ rawArr[i].multipleAnswers # None
       /\ rawArr[i].multipleAnswers[1] # questions[i].multipleAnswers
       /\ questions[i].multipleAnswers = TRUE

\* ---------------------------------------------------------------- C5
\* finalizeQuestions has been called and has returned or thrown.
FinalizeCalled ==
  Terminal /\ error.kind \in {"none", "requireAtLeastOneCorrect", "enforceSingle"}

Violates(q) ==
  \/ options.requireAtLeastOneCorrect /\ NumCorrect(q.answers) = 0
  \/ options.enforceSingle /\ NumCorrect(q.answers) > 1

ViolatingPositions == {i \in 1..Len(questions) : Violates(questions[i])}

\* C5: finalizeQuestions fails if and only if some question has no correct
\* answer while requireAtLeastOneCorrect is set or more than one while
\* enforceSingle is set; the error names the position and title of the
\* first such question, the option it violates and, for enforceSingle, its
\* number of correct answers; with both options unset it never fails.
C5_FinalizeFailsIffViolation ==
  FinalizeCalled =>
    /\ (pc = "failed") <=> (ViolatingPositions # {})
    /\ pc = "failed" =>
         LET i == Min(ViolatingPositions)
             n == NumCorrect(questions[i].answers)
         IN /\ error.question = i
            /\ error.title = questions[i].title
            /\ error.kind = IF n = 0 THEN "requireAtLeastOneCorrect" ELSE "enforceSingle"
            /\ error.kind = "enforceSingle" => error.count = n
    /\ (~options.requireAtLeastOneCorrect /\ ~options.enforceSingle) => pc = "done"

\* finalizeQuestions has thrown on the second question, the first one
\* passing, under both options.
C5_Witness ==
  /\ FinalizeCalled /\ pc = "failed"
  /\ options.requireAtLeastOneCorrect /\ options.enforceSingle
  /\ error.question = 2 /\ error.kind = "enforceSingle" /\ error.count = 2

\* ---------------------------------------------------------------- C6
\* The text of a title line: what follows its `# Title:` or `# QCM:`.
TitleTextOf(l) == Trim(SubSeq(Trim(l), TitlePrefixLen(Trim(l)) + 1, Len(Trim(l))))

\* C6: only the first title line of a document takes effect and every later
\* one is rejected: a text with two title lines is not parsed successfully,
\* and the title returned is the text of the first title line.
C6_SingleTitle ==
  ParsedText =>
    /\ Cardinality(TitleLineNumbers) >= 2 => pc = "failed"
    /\ (pc = "done" /\ TitleLineNumbers # {}) =>
         title = Some(TitleTextOf(lines[Min(TitleLineNumbers)]))

\* ---------------------------------------------------------------- C7
\* The answer an answer line stands for.
AnswerOfLine(l) ==
  [text |-> Trim(AnswerMatch(Trim(l))[1].text),
   correct |-> AnswerMatch(Trim(l))[1].mark \in {"x", "X"}]

\* The answers of the answer lines strictly between lines lo and hi.
AnswersBetween(lo, hi) ==
  LET at == Sorted({i \in (lo + 1)..(hi - 1) : AnswerShaped(lines[i])})
  IN [k \in 1..Len(at) |-> AnswerOfLine(lines[at[k]])]

\* The effect of the forEach callback on one line.
LineStep ==
  (pc = "lines" /\ idx <= Len(lines)) =>
    /\ (AnswerShaped(lines[idx]) /\ pc' = "lines") =>
         /\ currentQuestion # None /\ currentQuestion' # None
         /\ currentQuestion'[1].answers =
              currentQuestion[1].answers \o <<AnswerOfLine(lines[idx])>>
         /\ currentQuestion'[1].title = currentQuestion[1].title
         /\ currentQuestion'[1].score = currentQuestion[1].score
         /\ questions' = questions /\ title' = title
    /\ QuestionShaped(lines[idx]) =>
         /\ questions' = IF currentQuestion = None THEN questions
                         ELSE Append(questions, currentQuestion[1])
         /\ currentQuestion' # None /\ currentQuestion'[1].answers = <<>>
         /\ title' = title
    /\ (TitleShaped(lines[idx]) \/ IgnorableShaped(lines[idx])) =>
         questions' = questions /\ currentQuestion' = currentQuestion
    /\ Len(questions') >= Len(questions)
    /\ \A i \in 1..Len(questions) : questions'[i] = questions[i]

\* The questions of a successful parse are those of the header lines, in
\* their order, each with the answers of the answer lines up to the next
\* header line or the end of the input.
QuestionsFollowLines ==
  (ParsedText /\ pc = "done") =>
    LET hs == Sorted(HeaderLineNumbers) IN
    /\ Len(questions) = Len(hs)
    /\ \A k \in 1..Len(hs) :
         questions[k].answers =
           AnswersBetween(hs[k], IF k < Len(hs) THEN hs[k + 1] ELSE Len(lines) + 1)

\* C7: an answer line appends one answer to the end of the open question
\* and changes nothing else; a question header appends the open question,
\* if any, to the output and opens a new one with no answers; title, blank
\* and comment lines leave the output and the open question unchanged; no
\* line modifies a question already in the output.  On success the
\* questions follow the header lines and each has the answers of the
\* answer lines between its header and the next.
C7_LineFold == [][LineStep]_vars /\ []QuestionsFollowLines

\* A parse of a text with a title line and two questions, the first with
\* two answers, has returned.
C7_Witness ==
  /\ ParsedText /\ pc = "done"
  /\ Len(questions) = 2 /\ Len(questions[1].answers) = 2
  /\ TitleLineNumbers # {}

\* ---------------------------------------------------------------- C8
\* C8: every question returned by parseQCM or parseQCMFromArray has a title
\* that is non-empty after trimming, and every answer a text that is
\* non-empty after trimming.
C8_NonEmptyTexts ==
  Returned =>
    \A i \in 1..Len(questions) :
      /\ Trim(questions[i].title) # <<>>
      /\ \A j \in 1..Len(questions[i].answers) :
           Trim(questions[i].answers[j].text) # <<>>

\* ---------------------------------------------------------------- C9
\* C9: every question returned by parseQCM or parseQCMFromArray has a
\* positive integer score; for a structured input it is the trailing
\* bracketed integer of the item title when there is one, and 1 otherwise.
C9_PositiveScore ==
  Returned =>
    /\ \A i \in 1..Len(questions) : questions[i].score >= 1
    /\ entry = "parseQCMFromArray" =>
         \A i \in 1..Len(questions) :
           LET m == ScoreMatch(Trim(rawArr[i].title[1])) IN
           questions[i].score = IF m = None THEN 1 ELSE ParseInt(m[1].digits)

\* --------------------------------------------------------------- C10
\* C10: jsonToMd emits `# Title: <trimmed title>` and a blank line if and
\* only if the title is present and non-empty after trimming; otherwise the
\* output begins with the first question header; the output always ends
\* with exactly one newline.
C10_TitleLineIffNonEmpty ==
  (entry = "roundTrip" /\ pc # "serialize") =>
    LET present == qcmIn.title # None /\ Trim(qcmIn.title[1]) # <<>>
        first == Split(markdown)[1]
    IN /\ present => first = TitleLinePrefix \o Trim(qcmIn.title[1])
       /\ (present /\ Len(qcmIn.questions) > 0) => Split(markdown)[2] = <<>>
       /\ ~present =>
            IF Len(qcmIn.questions) > 0 THEN StartsWith(first, HeaderPrefix)
            ELSE markdown = <<"\n">>
       /\ markdown[Len(markdown)] = "\n"
       /\ Len(markdown) > 1 => markdown[Len(markdown) - 1] # "\n"
====
